---- MODULE Spec2Model ----
(***************************************************************************)
(* Construction of the plotting Elements of licaplot / licatools:          *)
(* a table source (plotter/table.py) resolves one-based column numbers     *)
(* and loads the tables; an elements builder (plotter/element.py) resolves *)
(* titles, legends, markers and line styles; the Director runs the build   *)
(* steps in order and returns the accumulated Elements list.               *)
(*                                                                         *)
(* A table is modelled by its identity and its number of columns; its      *)
(* metadata and column names are functions of those.  Python exceptions    *)
(* are records [kind, msg]; Python's None is the string "None" where a     *)
(* string is expected and the empty option <<>> where a list is expected.  *)
(*                                                                         *)
(* Further specifications of the module: TableSpec, the rows of one table  *)
(* through read_csv, resample_column and trim_table; AgainSpec,            *)
(* build_elements called repeatedly on one builder; PlotSpec, the outer    *)
(* loop of PlotterBase.plot; StoreSpec, the ingestion of files into        *)
(* lica_file_t by licadb.slurp and licatools.dbase.                        *)
(***************************************************************************)
EXTENDS Integers, Sequences, FiniteSets, TLC

\* ------------------------------------------------------------------------
\* Bounds of the model
\* ------------------------------------------------------------------------
\* at most this many tables (paths) per construction
MaxTab == 2
\* at most this many columns per table
MaxCols == 3
\* at most this many requested Y columns
MaxY == 2
\* at most this many rows in a table whose rows are modelled
MaxRows == 3
\* the largest X value of such a table, in whole wavelength units
MaxX == 3
\* the largest resampling step, in whole wavelength units
MaxStep == 2
\* at most this many rows and this many columns of panels in a figure
MaxGrid == 2
\* at most this many build_elements calls on one builder
MaxCalls == 2
\* at most this many files found by one ingestion run
MaxFiles == 2
\* the number of different file contents
MaxContents == 3

\* ------------------------------------------------------------------------
\* Python values
\* ------------------------------------------------------------------------
None == "None"
Absent == <<>>
Given(v) == <<v>>
IsNone(opt) == Len(opt) = 0
Val(opt) == opt[1]

NoError == [kind |-> "", msg |-> ""]
Error(kind, msg) == [kind |-> kind, msg |-> msg]

\* seq * n for Python lists and tuples
RECURSIVE Times(_, _)
Times(seq, n) == IF n <= 0 THEN <<>> ELSE seq \o Times(seq, n - 1)

\* " ".join(words)
RECURSIVE Join(_)
Join(words) ==
    IF Len(words) = 0 THEN ""
    ELSE IF Len(words) = 1 THEN words[1]
    ELSE words[1] \o " " \o Join(Tail(words))

\* a grouping that deals the items out to the groups in turn
batchedDealt(sequence, n) ==
    LET groups == IF n <= 0 THEN 0 ELSE (Len(sequence) + n - 1) \div n
    IN [g \in 1..groups |->
          [c \in 1..(IF g + (n - 1) * groups <= Len(sequence) THEN n
                      ELSE (Len(sequence) - g) \div groups + 1) |->
              sequence[g + (c - 1) * groups]]]

\* itertools.batched(sequence, n): consecutive tuples of n items, the last
\* one shorter when the length is no multiple of n
RECURSIVE batched(_, _)
batched(sequence, n) ==
    IF Len(sequence) = 0 THEN <<>>
    ELSE IF Len(sequence) <= n THEN <<sequence>>
    ELSE <<SubSeq(sequence, 1, n)>> \o batched(SubSeq(sequence, n + 1, Len(sequence)), n)

\* ------------------------------------------------------------------------
\* Tables
\* ------------------------------------------------------------------------
\* values = [None, None] in _build_one_resampled_table: a resampled table
\* is built from exactly two value lists
ResampledWidth == 2

Table(id, ncols) == [id |-> id, ncols |-> ncols]
MetaTitle(table) == "Title of table " \o ToString(table.id)
MetaLabel(table) == "label" \o ToString(table.id)
BaseNames == <<"Wavelength", "Electrical Current", "Photodiode Electrical Current">>
ColumnName(i) == IF i <= Len(BaseNames) THEN BaseNames[i] ELSE "Column number " \o ToString(i)

\* table.columns[col] of astropy (list(self.values())[col]): Python list
\* indexing, a negative index counts from the end; a list key is illegal
ValidPyIndex(n, col) == -n <= col /\ col < n
PyIndex(n, col) == IF col < 0 THEN col + n ELSE col
columns_getitem(table, col) ==
    IF col.list THEN Error("IndexError", "Illegal key or index value for TableColumns object")
    ELSE IF ~ValidPyIndex(table.ncols, col.v[1]) THEN Error("IndexError", "list index out of range")
    ELSE NoError

\* a column argument: an int (list = FALSE, one value) or a list of ints
OneCol(c) == [list |-> FALSE, v |-> <<c>>]
ColList(cs) == [list |-> TRUE, v |-> cs]

\* xcol - 1 ; ycol - 1 if isinstance(ycol, int) else [y - 1 for y in ycol]
ToZeroBasedOff(col) == col
ToZeroBased(col) == [list |-> col.list, v |-> [i \in 1..Len(col.v) |-> col.v[i] - 1]]

\* ------------------------------------------------------------------------
\* plotter/table.py: the table sources
\* ------------------------------------------------------------------------
TableSources == {"TableFromFile", "TablesFromFiles", "TableWrapper", "TablesWrapper"}
FileSources == {"TableFromFile", "TablesFromFiles"}
SingleSources == {"TableFromFile", "TableWrapper"}
\* the classes that inherit _check_col_range from TableBase
TableBaseClasses == {"TableFromFile", "TablesFromFiles"}

Failed(err) == [err |-> err, table |-> Table(0, 0)]
Built(table) == [err |-> NoError, table |-> table]

\* trim_table: reads table.columns[xcol] and keeps the rows inside the bounds;
\* the columns of the result are those of the table
trim_table(table, xcol) ==
    LET e == columns_getitem(table, OneCol(xcol))
    IN IF e # NoError THEN Failed(e) ELSE Built(table)

\* resample_column: reads table.columns[xcol], then table.columns[ycol]
resample_column(table, xcol, ycol) ==
    LET ex == columns_getitem(table, OneCol(xcol))
    IN IF ex # NoError THEN ex ELSE columns_getitem(table, ycol)

\* the text of the column range error
ColumnRangeMessageZeroBased(tag, col, ncols) ==
    tag \o " column number (" \o ToString(col) \o ") should be 1 <= Y <= ("
        \o ToString(ncols) \o ")"
ColumnRangeMessage(tag, col, ncols) ==
    tag \o " column number (" \o ToString(col + 1) \o ") should be 1 <= Y <= ("
        \o ToString(ncols) \o ")"

\* the ints of cols, in the order _check_col_range visits them
RECURSIVE Flat(_)
Flat(cols) == IF Len(cols) = 0 THEN <<>> ELSE cols[1].v \o Flat(Tail(cols))

\* TableBase._check_col_range: the first column outside 0 <= col < ncols raises
_check_col_range(table, cols, tag) ==
    LET ncols == table.ncols
        flat == Flat(cols)
        bad == {i \in 1..Len(flat) : ~(0 <= flat[i] /\ flat[i] < ncols)}
    IN IF bad = {} THEN NoError
       ELSE LET first == CHOOSE i \in bad : \A j \in bad : i <= j
            IN Error("ValueError", ColumnRangeMessage(tag, flat[first], ncols))

\* TableBase._build_one_table: read_csv, then trim_table
_build_one_table(file, xc) == trim_table(file, xc)

\* TableBase._build_one_resampled_table: read_csv, resample_column, a new
\* Table of the two resampled value lists under the names of the table as
\* read, then trim_table
_build_one_resampled_table(file, xc, yc) ==
    LET e == resample_column(file, xc, yc)
    IN IF e # NoError THEN Failed(e)
       ELSE IF ~ValidPyIndex(ResampledWidth, xc) \/ ~ValidPyIndex(ResampledWidth, yc.v[1])
            THEN Failed(Error("IndexError", "list assignment index out of range"))
       ELSE IF file.ncols # ResampledWidth
            THEN Failed(Error("ValueError", "Arguments names and dtype must match number of columns"))
       ELSE trim_table(Table(file.id, ResampledWidth), xc)

Raised(err) == [err |-> err, tables |-> <<>>]
Returned(tables) == [err |-> NoError, tables |-> tables]

\* TableFromFile.build_tables: build the table, then check X, then check Y
TableFromFile_build_tables(files, xc, yc, resol) ==
    LET r == IF IsNone(resol) THEN _build_one_table(files[1], xc)
             ELSE _build_one_resampled_table(files[1], xc, yc)
        ex == _check_col_range(r.table, <<OneCol(xc)>>, "X")
        ey == _check_col_range(r.table, <<yc>>, "Y")
    IN IF r.err # NoError THEN Raised(r.err)
       ELSE IF ex # NoError THEN Raised(ex)
       ELSE IF ey # NoError THEN Raised(ey)
       ELSE Returned(<<r.table>>)

\* TablesFromFiles.build_tables: the loop over the paths; the first path
\* that fails ends it
RECURSIVE TablesFromFiles_build_tables(_, _, _, _, _)
TablesFromFiles_build_tables(paths, tables, xc, yc, resol) ==
    IF Len(paths) = 0 THEN Returned(tables)
    ELSE LET r == IF IsNone(resol) THEN _build_one_table(paths[1], xc)
                  ELSE IF yc.list THEN Failed(Error("AssertionError", "Y Column only"))
                  ELSE _build_one_resampled_table(paths[1], xc, yc)
             ex == _check_col_range(r.table, <<OneCol(xc)>>, "X")
             ey == _check_col_range(r.table, <<yc>>, "Y")
         IN IF r.err # NoError THEN Raised(r.err)
            ELSE IF ex # NoError THEN Raised(ex)
            ELSE IF ey # NoError THEN Raised(ey)
            ELSE TablesFromFiles_build_tables(Tail(paths), Append(tables, r.table), xc, yc, resol)

\* TableWrapper.build_tables: TableWrapper derives from ITableBuilder, not
\* from TableBase, so the lookup of self._check_col_range fails
TableWrapper_build_tables(files, xc, yc) ==
    IF "TableWrapper" \notin TableBaseClasses
    THEN Raised(Error("AttributeError",
                      "'TableWrapper' object has no attribute '_check_col_range'"))
    ELSE LET ex == _check_col_range(files[1], <<OneCol(xc)>>, "X")
             ey == _check_col_range(files[1], <<yc>>, "Y")
         IN IF ex # NoError THEN Raised(ex)
            ELSE IF ey # NoError THEN Raised(ey)
            ELSE Returned(<<files[1]>>)

\* TablesWrapper.build_tables: hands the tables over as they are
TablesWrapper_build_tables(files, xc, yc) == Returned(files)

\* self._tb_builder.build_tables()
tb_build_tables(source, files, xc, yc, resol) ==
    CASE source = "TableFromFile" -> TableFromFile_build_tables(files, xc, yc, resol)
      [] source = "TablesFromFiles" -> TablesFromFiles_build_tables(files, <<>>, xc, yc, resol)
      [] source = "TableWrapper" -> TableWrapper_build_tables(files, xc, yc)
      [] source = "TablesWrapper" -> TablesWrapper_build_tables(files, xc, yc)

\* ITableBuilder.ncols() and ntab(), which ElementsBase.__init__ calls: the
\* number of Y columns requested and the number of tables of the source
tb_ncols(yc) == IF yc.list THEN Len(yc.v) ELSE 1
tb_ntab(source, files) == IF source \in SingleSources THEN 1 ELSE Len(files)

\* ------------------------------------------------------------------------
\* plotter/element.py: ElementsBase
\* ------------------------------------------------------------------------
ElementKinds == {"SingleTableColumnBuilder", "SingleTableColumnsBuilder",
                 "SingleTablesColumnBuilder", "SingleTablesColumnsBuilder",
                 "MultiTablesColumnBuilder", "MultiTablesColumnsBuilder"}
SingleTableKinds == {"SingleTableColumnBuilder", "SingleTableColumnsBuilder"}
ColumnKinds == {"SingleTableColumnBuilder", "SingleTablesColumnBuilder",
                "MultiTablesColumnBuilder"}
MultiAxesKinds == {"MultiTablesColumnBuilder", "MultiTablesColumnsBuilder"}

\* label_length: int = 6
DefaultLabelLength == 6
\* the label lengths constructed: the default and a shorter one
LabelLengths == {3, DefaultLabelLength}
\* the builders that take label_length
TrimmingKinds == ElementKinds \ {"SingleTableColumnBuilder", "SingleTablesColumnBuilder"}

\* what a build step does: it raises, or it appends entries to self._elements
Raise(err) == [err |-> err, part |-> <<>>]
Append1(tag, v) == [err |-> NoError, part |-> <<[tag |-> tag, v |-> v]>>]

\* a title argument: a string, or the words of the command line
TitleStr(t) == [str |-> TRUE, v |-> <<t>>]
TitleWords(ws) == [str |-> FALSE, v |-> ws]

\* ElementsBase._default_table_title
_default_table_title(title, table) ==
    LET result == IF ~IsNone(title)
                  THEN (IF Val(title).str THEN Val(title).v[1] ELSE Join(Val(title).v))
                  ELSE MetaTitle(table)
    IN Append1("titles", <<result>>)

\* the default title taken from the last table
_default_tables_titleLast(title, tables) ==
    LET result == IF ~IsNone(title)
                  THEN (IF Val(title).str THEN Val(title).v[1] ELSE Join(Val(title).v))
                  ELSE MetaTitle(tables[Len(tables)])
    IN Append1("titles", <<result>>)

\* ElementsBase._default_tables_title
_default_tables_title(title, tables) ==
    LET result == IF ~IsNone(title)
                  THEN (IF Val(title).str THEN Val(title).v[1] ELSE Join(Val(title).v))
                  ELSE MetaTitle(tables[1])
    IN Append1("titles", <<result>>)

\* ElementsBase._default_tables_titles; isinstance(self._default_tables_titles, str)
\* tests a bound method and is never true, so supplied titles are used as given
_default_tables_titles(titles, tables, ntab) ==
    LET result == IF ~IsNone(titles) THEN Val(titles)
                  ELSE [i \in 1..Len(tables) |-> MetaTitle(tables[i])]
    IN Append1("titles", result)

\* ElementsBase._grouped
_grouped(sequence, ncol, ntab) ==
    IF ~IsNone(sequence) THEN batched(Val(sequence), ncol)
    ELSE Times(<<Times(<<None>>, ncol)>>, ntab)

\* table.columns[y].name[: self._trim] + "."
TrimmedNot(name, trim) == name
Trimmed(name, trim) == SubSeq(name, 1, IF Len(name) < trim THEN Len(name) ELSE trim)
ColumnLegend(table, y, trim) == Trimmed(ColumnName(PyIndex(table.ncols, y) + 1), trim) \o "."
\* the column lookups of a default legend that raise
BadLookups(tables, ycols) ==
    {<<t, i>> \in (1..Len(tables)) \X (1..Len(ycols)) : ~ValidPyIndex(tables[t].ncols, ycols[i])}
LookupError == Error("IndexError", "list index out of range")

\* the messages of the cardinality checks
MatchMessage(what, n, unit, m) ==
    "number of " \o what \o " (" \o ToString(n) \o ") should match number of "
        \o unit \o " (" \o ToString(m) \o ")"
EitherMessage(what, n, m) ==
    "number of " \o what \o " (" \o ToString(n)
        \o ") should either match number of tables (" \o ToString(m) \o ") or be 1"
\* the two counts of the message exchanged
TwoWayMessageSwapped(what, n, nm, m) ==
    "number of " \o what \o " (" \o ToString(n)
        \o ") should match number of tables x Y-columns (" \o ToString(m)
        \o ") or the number of Y-columns (" \o ToString(nm) \o ")"
TwoWayMessage(what, n, nm, m) ==
    "number of " \o what \o " (" \o ToString(n)
        \o ") should match number of tables x Y-columns (" \o ToString(nm)
        \o ") or the number of Y-columns (" \o ToString(m) \o ")"

\* ------------------------------------------------------------------------
\* State
\* ------------------------------------------------------------------------
VARIABLES
    source,      \* the class of the table source (self._tb_builder)
    files,       \* the tables behind the paths, or the tables wrapped
    xcol, ycol,  \* the one-based column numbers given to the table source
    xc, yc,      \* self._xc, self._yc of the table source
    resol,       \* self._resol: the resampling step, or absent
    kind,        \* the class of the elements builder
    ncol, ntab,  \* self._ncol, self._ntab
    title, titles,
    legend, legends,
    marker, markers,
    linestyle, linestyles,
    trim,        \* self._trim
    tables,      \* self._tables ([self._table]), absent until build_tables
    elements,    \* self._elements
    pc,          \* the Director's position in build_elements
    calls,       \* the builder steps invoked so far, in order
    result,      \* what build_elements returned, absent until it returns
    error,       \* the exception build_elements raised, NoError if none
    ncalls       \* the build_elements calls started on this builder

\* one table being built by TableBase._build_one_table /
\* _build_one_resampled_table or by plot.build_table_yc
VARIABLES
    t_args,      \* fn, the X values of the file, xl, xh, lica, resol
    t_table,     \* the local variable table (new_table once it is made)
    t_grid,      \* wavelength, resampled_col of resample_column, absent before
    t_pc,        \* the position in the function
    t_ops,       \* the steps done so far, in order
    t_err        \* the exception raised, NoError if none

\* the file store of licadb.slurp / licatools.dbase
VARIABLES
    s_tool,      \* the ingesting program
    s_autoflush, \* whether the Session flushes before a query
    s_store,     \* the committed rows of lica_file_t
    s_pending,   \* the objects added to the open session, in order
    s_paths,     \* the files of the run still to ingest; absent between runs
    s_outcome,   \* what the last ingestion of a file did
    s_err        \* the exception the run raised, NoError if none

\* one call of PlotterBase.plot
VARIABLES
    p_args,      \* changes, log_y, nrows, ncols, the number of tables
    p_pass,      \* i of the outer loop: the passes done
    p_axes,      \* per Axes object: the axvline calls on it, its y scale, on or off
    p_pc         \* the position in plot

source_vars == <<source, files, xcol, ycol, xc, yc, resol>>
builder_args == <<kind, ncol, ntab, title, titles, legend, legends, marker, markers,
                  linestyle, linestyles, trim>>
builder_vars == <<source_vars, builder_args, tables, elements, pc, calls, result, error,
                  ncalls>>
table_vars == <<t_args, t_table, t_grid, t_pc, t_ops, t_err>>
store_vars == <<s_tool, s_autoflush, s_store, s_pending, s_paths, s_outcome, s_err>>
plot_vars == <<p_args, p_pass, p_axes, p_pc>>
vars == <<builder_vars, table_vars, store_vars, plot_vars>>

NotBuilt == Error("AttributeError", "object has no attribute '_tables'")

\* ------------------------------------------------------------------------
\* plotter/element.py: the build_tables and build_titles of the six builders
\* ------------------------------------------------------------------------
\* self._elements.extend([self._xcol, [self._ycol], tables])
ExtendTables(r) ==
    [err |-> NoError,
     part |-> <<[tag |-> "x", v |-> xc], [tag |-> "yy", v |-> yc.v],
                [tag |-> "tables", v |-> r.tables]>>]

\* build_tables of every builder: the source's build_tables, then the extend
build_tables ==
    LET r == tb_build_tables(source, files, xc, yc, resol)
    IN IF r.err # NoError THEN [err |-> r.err, part |-> <<>>, tables |-> Absent]
       ELSE [err |-> NoError, part |-> ExtendTables(r).part, tables |-> Given(r.tables)]

\* no check of the number of titles
_check_titlesOff == NoError

\* MultiTablesColumnBuilder._check_titles, MultiTablesColumnsBuilder._check_titles
_check_titles ==
    IF ~IsNone(titles) /\ Len(Val(titles)) # ntab
    THEN Error("ValueError", MatchMessage("titles", Len(Val(titles)), "tables", ntab))
    ELSE NoError

build_titles ==
    CASE kind \in SingleTableKinds ->
            IF IsNone(title) /\ IsNone(tables) THEN Raise(NotBuilt)
            ELSE _default_table_title(title, IF IsNone(tables) THEN Table(0, 0) ELSE Val(tables)[1])
      [] kind \in {"SingleTablesColumnBuilder", "SingleTablesColumnsBuilder"} ->
            IF IsNone(title) /\ IsNone(tables) THEN Raise(NotBuilt)
            ELSE _default_tables_title(title, IF IsNone(tables) THEN <<>> ELSE Val(tables))
      [] kind \in MultiAxesKinds ->
            IF _check_titles # NoError THEN Raise(_check_titles)
            ELSE IF IsNone(titles) /\ IsNone(tables) THEN Raise(NotBuilt)
            ELSE _default_tables_titles(titles, IF IsNone(tables) THEN <<>> ELSE Val(tables), ntab)

\* ------------------------------------------------------------------------
\* plotter/element.py: the cardinality checks of the builders.  The three
\* checks of a class differ in the attribute they read and in the word of
\* the message ("labels" for the legends of the two classes that say so).
\* ------------------------------------------------------------------------
\* a check that only rejects a list that is too long
SingleTableColumnsBuilder_checkAtMost(what, seq) ==
    IF ~IsNone(seq) /\ Len(Val(seq)) > ncol
    THEN Error("ValueError", MatchMessage(what, Len(Val(seq)), "y-columns", ncol))
    ELSE NoError

\* SingleTableColumnsBuilder._check_legends / _check_markers / _check_linestyles
SingleTableColumnsBuilder_check(what, seq) ==
    IF ~IsNone(seq) /\ Len(Val(seq)) # ncol
    THEN Error("ValueError", MatchMessage(what, Len(Val(seq)), "y-columns", ncol))
    ELSE NoError

\* SingleTablesColumnBuilder._check_legends / _check_markers / _check_linestyles
SingleTablesColumnBuilder_check(what, seq) ==
    IF ~IsNone(seq) /\ ~(Len(Val(seq)) = ntab \/ Len(Val(seq)) = 1)
    THEN Error("ValueError", EitherMessage(what, Len(Val(seq)), ntab))
    ELSE NoError

\* SingleTablesColumnsBuilder._check_legends / _check_markers / _check_linestyles
SingleTablesColumnsBuilder_check(what, seq) ==
    IF ~IsNone(seq) /\ ~(Len(Val(seq)) = ncol \/ Len(Val(seq)) = ntab * ncol)
    THEN Error("ValueError", TwoWayMessage(what, Len(Val(seq)), ncol * ntab, ncol))
    ELSE NoError

\* a check that also accepts one item per table and column
MultiTablesColumnsBuilder_checkEither(what, seq) ==
    IF ~IsNone(seq) /\ ~(Len(Val(seq)) = ncol \/ Len(Val(seq)) = ntab * ncol)
    THEN Error("ValueError", MatchMessage(what, Len(Val(seq)), "y-columns", ncol))
    ELSE NoError

\* MultiTablesColumnsBuilder._check_legends / _check_markers / _check_linestyles
MultiTablesColumnsBuilder_check(what, seq) ==
    IF ~IsNone(seq) /\ Len(Val(seq)) # ncol
    THEN Error("ValueError", MatchMessage(what, Len(Val(seq)), "y-columns", ncol))
    ELSE NoError

\* ------------------------------------------------------------------------
\* build_legends_grp of the six builders
\* ------------------------------------------------------------------------
Grouped(tag, flat) == Append1(tag, _grouped(Given(flat), ncol, ntab))

\* [f(table, y) for table in self._tables for y in self._ycols]
RECURSIVE PerTableColumn(_, _, _)
PerTableColumn(tabs, ycols, prefixed) ==
    IF Len(tabs) = 0 THEN <<>>
    ELSE [i \in 1..Len(ycols) |->
            (IF prefixed THEN MetaLabel(tabs[1]) \o "-" ELSE "")
                \o ColumnLegend(tabs[1], ycols[i], trim)]
         \o PerTableColumn(Tail(tabs), ycols, prefixed)

SingleTableColumnBuilder_build_legends_grp ==
    Append1("legends_grp", << <<legend>> >>)

SingleTableColumnsBuilder_build_legends_grp ==
    LET e == SingleTableColumnsBuilder_check("labels", legends)
    IN IF e # NoError THEN Raise(e)
       ELSE IF ~IsNone(legends) THEN Append1("legends_grp", _grouped(legends, ncol, ntab))
       ELSE IF IsNone(tables) THEN Raise(NotBuilt)
       ELSE IF BadLookups(Val(tables), yc.v) # {} THEN Raise(LookupError)
       ELSE Grouped("legends_grp", PerTableColumn(Val(tables), yc.v, FALSE))

SingleTablesColumnBuilder_build_legends_grp ==
    LET e == SingleTablesColumnBuilder_check("labels", legends)
    IN IF e # NoError THEN Raise(e)
       ELSE IF ~IsNone(legends)
            THEN Grouped("legends_grp",
                         IF Len(Val(legends)) = 1 THEN Times(Val(legends), ntab) ELSE Val(legends))
       ELSE IF IsNone(tables) THEN Raise(NotBuilt)
       ELSE Grouped("legends_grp", [i \in 1..Len(Val(tables)) |-> MetaLabel(Val(tables)[i])])

SingleTablesColumnsBuilder_build_legends_grp ==
    LET e == SingleTablesColumnsBuilder_check("legends", legends)
    IN IF e # NoError THEN Raise(e)
       ELSE IF ~IsNone(legends)
            THEN Grouped("legends_grp",
                         IF Len(Val(legends)) = ncol THEN Times(Val(legends), ntab) ELSE Val(legends))
       ELSE IF IsNone(tables) THEN Raise(NotBuilt)
       ELSE IF BadLookups(Val(tables), yc.v) # {} THEN Raise(LookupError)
       ELSE Grouped("legends_grp", PerTableColumn(Val(tables), yc.v, TRUE))

MultiTablesColumnBuilder_build_legends_grp ==
    IF legend # None THEN Grouped("legends_grp", Times(<<legend>>, ntab))
    ELSE IF IsNone(tables) THEN Raise(NotBuilt)
    ELSE IF BadLookups(Val(tables), yc.v) # {} THEN Raise(LookupError)
    ELSE Grouped("legends_grp", PerTableColumn(Val(tables), yc.v, FALSE))

MultiTablesColumnsBuilder_build_legends_grp ==
    LET e == MultiTablesColumnsBuilder_check("legends", legends)
    IN IF e # NoError THEN Raise(e)
       ELSE IF ~IsNone(legends) THEN Grouped("legends_grp", Times(Val(legends), ntab))
       ELSE IF IsNone(tables) THEN Raise(NotBuilt)
       ELSE IF BadLookups(Val(tables), yc.v) # {} THEN Raise(LookupError)
       ELSE Grouped("legends_grp", PerTableColumn(Val(tables), yc.v, FALSE))

build_legends_grp ==
    CASE kind = "SingleTableColumnBuilder" -> SingleTableColumnBuilder_build_legends_grp
      [] kind = "SingleTableColumnsBuilder" -> SingleTableColumnsBuilder_build_legends_grp
      [] kind = "SingleTablesColumnBuilder" -> SingleTablesColumnBuilder_build_legends_grp
      [] kind = "SingleTablesColumnsBuilder" -> SingleTablesColumnsBuilder_build_legends_grp
      [] kind = "MultiTablesColumnBuilder" -> MultiTablesColumnBuilder_build_legends_grp
      [] kind = "MultiTablesColumnsBuilder" -> MultiTablesColumnsBuilder_build_legends_grp

\* ------------------------------------------------------------------------
\* build_markers_grp and build_linestyles_grp of the six builders: in every
\* class the two methods are the same code on self._markers / self._marker
\* and on self._linestyles / self._linestyle
\* ------------------------------------------------------------------------
\* SingleTableColumnBuilder.build_markers_grp / build_linestyles_grp
SingleTableColumnBuilder_build_grp(tag, one) ==
    Append1(tag, << <<one>> >>)

\* SingleTableColumnsBuilder.build_markers_grp / build_linestyles_grp
SingleTableColumnsBuilder_build_grp(tag, what, seq) ==
    LET e == SingleTableColumnsBuilder_check(what, seq)
    IN IF e # NoError THEN Raise(e)
       ELSE Append1(tag, _grouped(seq, ncol, ntab))

\* a build that never replicates a single supplied value
SingleTablesColumnBuilder_build_grpOnce(tag, what, seq) ==
    LET e == SingleTablesColumnBuilder_check(what, seq)
    IN IF e # NoError THEN Raise(e)
       ELSE IF ~IsNone(seq) THEN Grouped(tag, Val(seq))
       ELSE Grouped(tag, Times(<<None>>, ntab))

\* SingleTablesColumnBuilder.build_markers_grp / build_linestyles_grp
SingleTablesColumnBuilder_build_grp(tag, what, seq) ==
    LET e == SingleTablesColumnBuilder_check(what, seq)
    IN IF e # NoError THEN Raise(e)
       ELSE IF ~IsNone(seq)
            THEN Grouped(tag, IF Len(Val(seq)) = 1 THEN Times(Val(seq), ntab) ELSE Val(seq))
       ELSE Grouped(tag, Times(<<None>>, ntab))

\* a build that never replicates the supplied list
SingleTablesColumnsBuilder_build_grpOnce(tag, what, seq) ==
    LET e == SingleTablesColumnsBuilder_check(what, seq)
    IN IF e # NoError THEN Raise(e)
       ELSE IF ~IsNone(seq) THEN Grouped(tag, Val(seq))
       ELSE Grouped(tag, Times(<<None>>, ntab * ncol))

\* SingleTablesColumnsBuilder.build_markers_grp / build_linestyles_grp
SingleTablesColumnsBuilder_build_grp(tag, what, seq) ==
    LET e == SingleTablesColumnsBuilder_check(what, seq)
    IN IF e # NoError THEN Raise(e)
       ELSE IF ~IsNone(seq)
            THEN Grouped(tag, IF Len(Val(seq)) = ncol THEN Times(Val(seq), ntab) ELSE Val(seq))
       ELSE Grouped(tag, Times(<<None>>, ntab * ncol))

\* MultiTablesColumnBuilder.build_markers_grp / build_linestyles_grp
MultiTablesColumnBuilder_build_grp(tag, one) ==
    Grouped(tag, Times(<<one>>, ntab))

\* MultiTablesColumnsBuilder.build_markers_grp / build_linestyles_grp:
\* flat = [None, None] if absent else the list; flat * self._ntab
MultiTablesColumnsBuilder_build_grp(tag, what, seq) ==
    LET e == MultiTablesColumnsBuilder_check(what, seq)
        flat == IF IsNone(seq) THEN <<None, None>> ELSE Val(seq)
    IN IF e # NoError THEN Raise(e)
       ELSE Grouped(tag, Times(flat, ntab))

build_markers_grp ==
    CASE kind = "SingleTableColumnBuilder" ->
            SingleTableColumnBuilder_build_grp("markers_grp", marker)
      [] kind = "SingleTableColumnsBuilder" ->
            SingleTableColumnsBuilder_build_grp("markers_grp", "markers", markers)
      [] kind = "SingleTablesColumnBuilder" ->
            SingleTablesColumnBuilder_build_grp("markers_grp", "markers", markers)
      [] kind = "SingleTablesColumnsBuilder" ->
            SingleTablesColumnsBuilder_build_grp("markers_grp", "markers", markers)
      [] kind = "MultiTablesColumnBuilder" ->
            MultiTablesColumnBuilder_build_grp("markers_grp", marker)
      [] kind = "MultiTablesColumnsBuilder" ->
            MultiTablesColumnsBuilder_build_grp("markers_grp", "markers", markers)

build_linestyles_grp ==
    CASE kind = "SingleTableColumnBuilder" ->
            SingleTableColumnBuilder_build_grp("linestyles_grp", linestyle)
      [] kind = "SingleTableColumnsBuilder" ->
            SingleTableColumnsBuilder_build_grp("linestyles_grp", "linestyles", linestyles)
      [] kind = "SingleTablesColumnBuilder" ->
            SingleTablesColumnBuilder_build_grp("linestyles_grp", "linestyles", linestyles)
      [] kind = "SingleTablesColumnsBuilder" ->
            SingleTablesColumnsBuilder_build_grp("linestyles_grp", "linestyles", linestyles)
      [] kind = "MultiTablesColumnBuilder" ->
            MultiTablesColumnBuilder_build_grp("linestyles_grp", linestyle)
      [] kind = "MultiTablesColumnsBuilder" ->
            MultiTablesColumnsBuilder_build_grp("linestyles_grp", "linestyles", linestyles)

\* ------------------------------------------------------------------------
\* plotter/element.py: Director
\* ------------------------------------------------------------------------
\* the statements of Director.build_elements before its return
Director_stepsFour ==
    <<"build_tables", "build_titles", "build_legends_grp", "build_markers_grp">>
Director_stepsSwapped ==
    <<"build_titles", "build_tables", "build_legends_grp", "build_markers_grp",
      "build_linestyles_grp">>
Director_steps ==
    <<"build_tables", "build_titles", "build_legends_grp", "build_markers_grp",
      "build_linestyles_grp">>

\* the statement build_elements is at: pc = 0 once it has been left
Stmt ==
    IF pc \in 1..Len(Director_steps) THEN Director_steps[pc]
    ELSE IF pc = Len(Director_steps) + 1 THEN "return"
    ELSE "exit"

\* build_elements has no handler: an exception of a step leaves it at once
Director_swallow(err) == [pc |-> pc + 1, error |-> NoError]
Director_raise(err) == [pc |-> 0, error |-> err]

\* one statement self._builder.<step>() with the outcome o of the step
Invoke(step, o) ==
    /\ Stmt = step
    /\ calls' = Append(calls, step)
    /\ IF o.err # NoError
       THEN /\ pc' = Director_raise(o.err).pc
            /\ error' = Director_raise(o.err).error
            /\ UNCHANGED elements
       ELSE /\ pc' = pc + 1
            /\ elements' = elements \o o.part
            /\ UNCHANGED error
    /\ UNCHANGED <<source_vars, builder_args, result, ncalls>>
    /\ UNCHANGED <<table_vars, store_vars, plot_vars>>

BuildTables ==
    /\ Invoke("build_tables", build_tables)
    /\ tables' = IF build_tables.err # NoError THEN tables ELSE build_tables.tables

BuildTitles == Invoke("build_titles", build_titles) /\ UNCHANGED tables

BuildLegendsGrp == Invoke("build_legends_grp", build_legends_grp) /\ UNCHANGED tables

BuildMarkersGrp == Invoke("build_markers_grp", build_markers_grp) /\ UNCHANGED tables

BuildLinestylesGrp == Invoke("build_linestyles_grp", build_linestyles_grp) /\ UNCHANGED tables

\* return self._builder.elements: the property hands the list over and
\* resets the accumulator
ReturnElements ==
    /\ Stmt = "return"
    /\ result' = Given(elements)
    /\ elements' = <<>>
    /\ pc' = 0
    /\ UNCHANGED <<source_vars, builder_args, tables, calls, error, ncalls>>
    /\ UNCHANGED <<table_vars, store_vars, plot_vars>>

\* ------------------------------------------------------------------------
\* The parts of the program that a construction does not run
\* ------------------------------------------------------------------------
NoTable ==
    /\ t_args = <<>> /\ t_table = <<>> /\ t_grid = Absent
    /\ t_pc = 0 /\ t_ops = <<>> /\ t_err = NoError
NoStore ==
    /\ s_tool = "" /\ s_autoflush = FALSE /\ s_store = <<>> /\ s_pending = <<>>
    /\ s_paths = Absent /\ s_outcome = "" /\ s_err = NoError
NoPlot ==
    /\ p_args = <<>> /\ p_pass = 0 /\ p_axes = <<>> /\ p_pc = ""
NoBuilder ==
    /\ source = "" /\ files = <<>> /\ xcol = 0 /\ ycol = <<>> /\ xc = 0 /\ yc = <<>>
    /\ resol = Absent /\ kind = "" /\ ncol = 0 /\ ntab = 0
    /\ title = Absent /\ titles = Absent /\ legend = None /\ legends = Absent
    /\ marker = None /\ markers = Absent /\ linestyle = None /\ linestyles = Absent
    /\ trim = DefaultLabelLength
    /\ tables = Absent /\ elements = <<>> /\ pc = 0 /\ calls = <<>>
    /\ result = Absent /\ error = NoError /\ ncalls = 0

\* ------------------------------------------------------------------------
\* The constructions checked
\* ------------------------------------------------------------------------
ColDomain == 0..(MaxCols + 1)
Tokens(prefix, n) == [i \in 1..n |-> prefix \o ToString(i)]
ListArgs(prefix, lens) == {Given(Tokens(prefix, n)) : n \in lens}
OneArgs(prefix) == {None, prefix \o "1"}
TitleArgs == {Absent, Given(TitleStr("A given title")),
              Given(TitleWords(<<"A", "given", "title">>))}
Files(n, counts) == {[i \in 1..n |-> Table(i, k[i])] : k \in [1..n -> counts]}
YLists == UNION {[1..n -> ColDomain] : n \in 1..MaxY}

\* Init is the state after TableSource(...) and Builder(table_source, ...)
\* were constructed and handed to Director(builder).  A builder for one Y
\* column gets a source with an int ycol, a builder for several a source with
\* a list; a builder for one table gets a single-table source.  Two families
\* of arguments: any column numbers on tables of differing widths, with the
\* attributes all absent or all of an accepted length; or column numbers in
\* range and attribute lists of every length up to ntab * ncol + 1.
InitArgs(anyColumns) ==
    /\ kind \in ElementKinds
    /\ source \in (IF kind \in SingleTableKinds THEN SingleSources
                    ELSE TableSources \ SingleSources)
    /\ \E n \in 1..(IF kind \in SingleTableKinds THEN 1 ELSE MaxTab) :
          files \in (IF anyColumns THEN Files(n, (MaxCols - 1)..MaxCols)
                     ELSE Files(n, {MaxCols}))
    /\ xcol \in (IF anyColumns THEN ColDomain ELSE {1})
    /\ ycol \in (IF kind \in ColumnKinds
                  THEN (IF anyColumns THEN {OneCol(y) : y \in ColDomain} ELSE {OneCol(2)})
                  ELSE (IF anyColumns THEN {ColList(ys) : ys \in YLists}
                        ELSE {ColList([i \in 1..n |-> i + 1]) : n \in 1..MaxY}))
    /\ resol \in (IF anyColumns /\ source \in FileSources THEN {Absent, Given(1)}
                   ELSE {Absent})
    /\ xc = ToZeroBased(OneCol(xcol)).v[1]
    /\ yc = ToZeroBased(ycol)
    /\ ncol = tb_ncols(yc)
    /\ ntab = tb_ntab(source, files)
    /\ \E supplied \in BOOLEAN :
        LET accepted == IF kind = "SingleTablesColumnBuilder" THEN {ntab} ELSE {ncol}
            lists(prefix, some, all) ==
                IF anyColumns THEN (IF supplied THEN ListArgs(prefix, some) ELSE {Absent})
                ELSE {Absent} \cup ListArgs(prefix, all)
            ones(prefix) == IF anyColumns
                            THEN (IF supplied THEN {prefix \o "1"} ELSE {None})
                            ELSE OneArgs(prefix)
            single == kind \in {"SingleTableColumnBuilder", "MultiTablesColumnBuilder"}
        IN /\ (anyColumns \/ supplied)
           /\ title \in (IF kind \in MultiAxesKinds THEN {Absent}
                          ELSE IF anyColumns
                               THEN (IF supplied THEN {Given(TitleStr("A given title"))}
                                     ELSE {Absent})
                               ELSE TitleArgs)
           /\ titles \in (IF kind \in MultiAxesKinds THEN lists("Panel ", {ntab}, 0..(ntab + 1))
                           ELSE {Absent})
           /\ legend \in (IF single THEN ones("legend ") ELSE {None})
           /\ marker \in (IF single THEN ones("marker ") ELSE {None})
           /\ linestyle \in (IF single THEN ones("linestyle ") ELSE {None})
           /\ legends \in (IF single THEN {Absent} ELSE lists("legend ", accepted, 0..(ntab * ncol + 1)))
           /\ markers \in (IF single THEN {Absent} ELSE lists("marker ", accepted, 0..(ntab * ncol + 1)))
           /\ linestyles \in (IF single THEN {Absent} ELSE lists("linestyle ", accepted, 0..(ntab * ncol + 1)))
           /\ trim \in (IF ~anyColumns /\ kind \in TrimmingKinds /\ IsNone(legends) /\ legend = None
                        THEN LabelLengths ELSE {DefaultLabelLength})
    /\ tables = Absent
    /\ elements = <<>>
    /\ pc = 1
    /\ calls = <<>>
    /\ result = Absent
    /\ error = NoError
    /\ ncalls = 1

Init ==
    /\ \E anyColumns \in BOOLEAN : InitArgs(anyColumns)
    /\ NoTable /\ NoStore /\ NoPlot

Next ==
    \/ BuildTables
    \/ BuildTitles
    \/ BuildLegendsGrp
    \/ BuildMarkersGrp
    \/ BuildLinestylesGrp
    \/ ReturnElements

Spec == Init /\ [][Next]_vars

\* ------------------------------------------------------------------------
\* plotter/table.py, plot.py: the rows of one table through read_csv,
\* resample_column and trim_table.  A row is its X value and its Y value.
\* X values of a file are counted in halves of the wavelength unit (3 is
\* 1.5 nm), so that np.ceil and np.floor do something; bounds, steps and
\* grid points are whole units.  The X column carries the unit of the
\* bounds (xunit = lunit).
\* ------------------------------------------------------------------------
\* BENCH.WAVE_START and BENCH.WAVE_END on the axis of the model
BenchStart == 1
BenchEnd == 2

Halves(w) == 2 * w
np_ceil(h) == (h + 1) \div 2
np_floor(h) == h \div 2
Min2(a, b) == IF a <= b THEN a ELSE b
Max2(a, b) == IF a >= b THEN a ELSE b
RECURSIVE np_max(_)
np_max(x) == IF Len(x) = 1 THEN x[1] ELSE Max2(x[1], np_max(Tail(x)))
RECURSIVE np_min(_)
np_min(x) == IF Len(x) = 1 THEN x[1] ELSE Min2(x[1], np_min(Tail(x)))
\* np.max, np.min of an empty column
ZeroSize(op) ==
    Error("ValueError", "zero-size array to reduction operation " \o op
                           \o " which has no identity")

\* np.arange(start, stop, step): start, start + step, ... below stop
np_arange(start, stop, step) ==
    LET n == IF stop <= start THEN 0 ELSE (stop - start + step - 1) \div step
    IN [k \in 1..n |-> start + (k - 1) * step]

\* read_csv: the rows of the file, row i with the Y value of row i
read_csv(x) == [i \in 1..Len(x) |-> [x |-> x[i], y |-> "y" \o ToString(i)]]
XColumn(rows) == [i \in 1..Len(rows) |-> rows[i].x]

\* a trim_table that drops the rows on the upper bound
trim_table_rowsStrict(rows, xlow, xhigh, lica) ==
    LET x == XColumn(rows)
    IN IF IsNone(xhigh) /\ Len(x) = 0 THEN [err |-> ZeroSize("maximum"), rows |-> <<>>]
       ELSE IF IsNone(xlow) /\ Len(x) = 0 THEN [err |-> ZeroSize("minimum"), rows |-> <<>>]
       ELSE LET xmax0 == IF IsNone(xhigh) THEN np_max(x) ELSE Halves(Val(xhigh))
                xmin0 == IF IsNone(xlow) THEN np_min(x) ELSE Halves(Val(xlow))
                xmax == IF lica THEN Min2(xmax0, Halves(BenchEnd)) ELSE xmax0
                xmin == IF lica THEN Max2(xmin0, Halves(BenchStart)) ELSE xmin0
                Below(r) == r.x < xmax
                Above(r) == r.x >= xmin
            IN [err |-> NoError, rows |-> SelectSeq(SelectSeq(rows, Below), Above)]

\* a trim_table that applies the lower bound only
trim_table_rowsLower(rows, xlow, xhigh, lica) ==
    LET x == XColumn(rows)
    IN IF IsNone(xhigh) /\ Len(x) = 0 THEN [err |-> ZeroSize("maximum"), rows |-> <<>>]
       ELSE IF IsNone(xlow) /\ Len(x) = 0 THEN [err |-> ZeroSize("minimum"), rows |-> <<>>]
       ELSE LET xmin0 == IF IsNone(xlow) THEN np_min(x) ELSE Halves(Val(xlow))
                xmin == IF lica THEN Max2(xmin0, Halves(BenchStart)) ELSE xmin0
                Above(r) == r.x >= xmin
            IN [err |-> NoError, rows |-> SelectSeq(rows, Above)]

\* trim_table on the rows: xmax and xmin from the bounds or from the column,
\* narrowed to the bench interval if lica, then table[x <= xmax] and, of
\* that, table[x >= xmin]
trim_table_rows(rows, xlow, xhigh, lica) ==
    LET x == XColumn(rows)
    IN IF IsNone(xhigh) /\ Len(x) = 0 THEN [err |-> ZeroSize("maximum"), rows |-> <<>>]
       ELSE IF IsNone(xlow) /\ Len(x) = 0 THEN [err |-> ZeroSize("minimum"), rows |-> <<>>]
       ELSE LET xmax0 == IF IsNone(xhigh) THEN np_max(x) ELSE Halves(Val(xhigh))
                xmin0 == IF IsNone(xlow) THEN np_min(x) ELSE Halves(Val(xlow))
                xmax == IF lica THEN Min2(xmax0, Halves(BenchEnd)) ELSE xmax0
                xmin == IF lica THEN Max2(xmin0, Halves(BenchStart)) ELSE xmin0
                Below(r) == r.x <= xmax
                Above(r) == r.x >= xmin
            IN [err |-> NoError, rows |-> SelectSeq(SelectSeq(rows, Below), Above)]

\* scipy.interpolate.Akima1DInterpolator(x, y)(w): x must be at least two
\* strictly increasing values; a point outside [x[0], x[-1]] evaluates to NaN
Akima1DInterpolator(x) ==
    IF Len(x) < 2 THEN Error("ValueError", "x must contain at least 2 elements.")
    ELSE IF \E i \in 1..(Len(x) - 1) : x[i] >= x[i + 1]
         THEN Error("ValueError", "x must be strictly increasing sequence.")
    ELSE NoError
interpolator(x, w) ==
    IF Halves(w) < x[1] \/ Halves(w) > x[Len(x)] THEN "nan" ELSE "interpolated"

\* resample_column on the rows: the grid np.arange(xmin, xmax + resolution,
\* resolution) and the interpolant evaluated on it
resample_column_rows(rows, resolution, lica) ==
    LET x == XColumn(rows)
        none == [err |-> NoError, wavelength |-> <<>>, resampled_col |-> <<>>]
    IN IF ~lica /\ Len(x) = 0 THEN [none EXCEPT !.err = ZeroSize("maximum")]
       ELSE LET xmin == IF lica THEN BenchStart ELSE np_ceil(np_min(x))
                xmax == IF lica THEN BenchEnd ELSE np_floor(np_max(x))
                wavelength == np_arange(xmin, xmax + resolution, resolution)
            IN IF Akima1DInterpolator(x) # NoError
               THEN [none EXCEPT !.err = Akima1DInterpolator(x)]
               ELSE [err |-> NoError, wavelength |-> wavelength,
                     resampled_col |-> [i \in 1..Len(wavelength) |->
                                           interpolator(x, wavelength[i])]]

\* Table(data=values, names=names) of the two resampled lists
NewTable(grid) ==
    [i \in 1..Len(grid.wavelength) |->
        [x |-> Halves(grid.wavelength[i]), y |-> grid.resampled_col[i]]]

\* the statements of _build_one_table and of build_table_yc without a
\* resolution
plain_steps == <<"read_csv", "trim_table">>
\* a pipeline that trims the table as read and resamples what is left
resampled_stepsTrimFirst == <<"read_csv", "trim_table", "resample_column", "Table">>
\* the statements of _build_one_resampled_table and of build_table_yc with a
\* resolution
resampled_steps == <<"read_csv", "resample_column", "Table", "trim_table">>

TableSteps == IF IsNone(t_args.resol) THEN plain_steps ELSE resampled_steps
TableStmt ==
    IF t_pc \in 1..Len(TableSteps) THEN TableSteps[t_pc]
    ELSE IF t_pc = Len(TableSteps) + 1 THEN "return"
    ELSE "exit"

\* new_table.meta = table.neta in build_table_yc
NetaError == Error("AttributeError", "'Table' object has no attribute 'neta'")

TableStep(stmt, err, table, grid) ==
    /\ TableStmt = stmt
    /\ t_ops' = Append(t_ops, stmt)
    /\ t_err' = err
    /\ t_pc' = IF err # NoError \/ stmt = "return" THEN 0 ELSE t_pc + 1
    /\ t_table' = IF err # NoError THEN t_table ELSE table
    /\ t_grid' = IF err # NoError THEN t_grid ELSE grid
    /\ UNCHANGED <<t_args, builder_vars, store_vars, plot_vars>>

ReadCsv == TableStep("read_csv", NoError, read_csv(t_args.x), t_grid)

ResampleColumn ==
    LET r == resample_column_rows(t_table, Val(t_args.resol), t_args.lica)
    IN TableStep("resample_column", r.err, t_table, Given(r))

MakeTable ==
    TableStep("Table",
              IF t_args.fn = "build_table_yc" THEN NetaError ELSE NoError,
              NewTable(Val(t_grid)), t_grid)

TrimTable ==
    LET r == trim_table_rows(t_table, t_args.xl, t_args.xh, t_args.lica)
    IN TableStep("trim_table", r.err, r.rows, t_grid)

ReturnTable == TableStep("return", NoError, t_table, t_grid)

\* the X columns of the files: any order and repeats in up to MaxRows rows
AnyX == UNION {[1..n -> 1..Halves(MaxX)] : n \in 1..MaxRows}
IncreasingX == {x \in AnyX : \A i \in 1..(Len(x) - 1) : x[i] < x[i + 1]}
\* the X columns handed to the resampling: the increasing ones, and the
\* short ones in any order
ResampledX == IncreasingX \cup {x \in AnyX : Len(x) <= 2}
Bounds == {Absent} \cup {Given(w) : w \in 0..(MaxX + 1)}
Steps == {Given(w) : w \in 1..MaxStep}

\* the state at the call of TableBase._build_one_table /
\* _build_one_resampled_table (fn TableBase) or of plot.build_table_yc
TableInit ==
    /\ \/ t_args \in [fn : {"TableBase"}, x : AnyX, xl : Bounds, xh : Bounds,
                      lica : BOOLEAN, resol : {Absent}]
       \/ t_args \in [fn : {"TableBase", "build_table_yc"}, x : ResampledX, xl : Bounds,
                      xh : Bounds, lica : BOOLEAN, resol : Steps]
    /\ t_table = <<>> /\ t_grid = Absent /\ t_pc = 1 /\ t_ops = <<>> /\ t_err = NoError
    /\ NoBuilder /\ NoStore /\ NoPlot

TableNext ==
    \/ ReadCsv
    \/ ResampleColumn
    \/ MakeTable
    \/ TrimTable
    \/ ReturnTable

TableSpec == TableInit /\ [][TableNext]_vars


\* ------------------------------------------------------------------------
\* plotter/element.py: build_elements called again on the same builder
\* ------------------------------------------------------------------------
\* director.build_elements() once more, after the previous call returned
\* or raised: the builder is the same object, self._elements and
\* self._tables are what the previous call left
CallAgain ==
    /\ pc = 0
    /\ ncalls < MaxCalls
    /\ ncalls' = ncalls + 1
    /\ pc' = 1
    /\ calls' = <<>>
    /\ result' = Absent
    /\ error' = NoError
    /\ UNCHANGED <<source_vars, builder_args, tables, elements>>
    /\ UNCHANGED <<table_vars, store_vars, plot_vars>>

\* between two calls the caller adds a column to a table of the source
\* (to the wrapped Table, or to the file)
AddColumn ==
    /\ pc = 0
    /\ error # NoError
    /\ ncalls < MaxCalls
    /\ \E t \in 1..Len(files) :
          /\ files[t].ncols < MaxCols
          /\ files' = [files EXCEPT ![t].ncols = @ + 1]
    /\ UNCHANGED <<source, xcol, ycol, xc, yc, resol, builder_args, tables, elements, pc,
                   calls, result, error, ncalls>>
    /\ UNCHANGED <<table_vars, store_vars, plot_vars>>

AgainInit == InitArgs(TRUE) /\ NoTable /\ NoStore /\ NoPlot

AgainNext ==
    \/ Next
    \/ CallAgain
    \/ AddColumn

AgainSpec == AgainInit /\ [][AgainNext]_vars

\* ------------------------------------------------------------------------
\* plotter/base.py: PlotterBase.plot
\* ------------------------------------------------------------------------
\* the wavelengths of MONOCROMATOR_CHANGES_LABELS
MONOCROMATOR_CHANGES == <<570, 860>>

single_plot == p_args.nrows * p_args.ncols = 1
\* configure_axes: the flattened grid, or the one Axes once per table
NAxesObjects == IF single_plot THEN 1 ELSE p_args.nrows * p_args.ncols
axes == IF single_plot THEN [i \in 1..p_args.ntables |-> 1]
        ELSE [i \in 1..NAxesObjects |-> i]
\* zip(self.axes, self.tables, ...) ends with the shorter
Passes == Min2(Len(axes), p_args.ntables)

\* if self.changes and (single_plot and first_pass) or not single_plot:
\* Python's and binds tighter than or
DrawsChanges(first_pass) ==
    (p_args.changes /\ (single_plot /\ first_pass)) \/ ~single_plot

\* plot_start_hook, load_mpl_resources, configure_axes
ConfigureAxes ==
    /\ p_pc = "configure_axes"
    /\ p_axes' = [a \in 1..NAxesObjects |-> [lines |-> <<>>, yscale |-> "linear", on |-> TRUE]]
    /\ p_pass' = 0
    /\ p_pc' = "for"
    /\ UNCHANGED <<p_args, builder_vars, table_vars, store_vars>>

\* one pass of the outer loop, on self.ax = axes[i]
OuterPass ==
    /\ p_pc = "for"
    /\ p_pass < Passes
    /\ LET ax == axes[p_pass + 1]
           first_pass == p_pass = 0
       IN p_axes' = [p_axes EXCEPT
                        ![ax].yscale = IF p_args.log_y THEN "log" ELSE @,
                        ![ax].lines = IF DrawsChanges(first_pass)
                                      THEN @ \o MONOCROMATOR_CHANGES ELSE @]
    /\ p_pass' = p_pass + 1
    /\ UNCHANGED <<p_args, p_pc, builder_vars, table_vars, store_vars>>

\* after the loop: ax.set_axis_off() for ax in self.axes[N:]
PlotEnd ==
    /\ p_pc = "for"
    /\ p_pass = Passes
    /\ p_axes' = [a \in 1..NAxesObjects |->
                    IF \E i \in (p_args.ntables + 1)..Len(axes) : axes[i] = a
                    THEN [p_axes[a] EXCEPT !.on = FALSE] ELSE p_axes[a]]
    /\ p_pc' = "done"
    /\ UNCHANGED <<p_args, p_pass, builder_vars, table_vars, store_vars>>

\* the state at the call of plot() on a constructed plotter
PlotInit ==
    /\ p_args \in [changes : BOOLEAN, log_y : BOOLEAN, nrows : 1..MaxGrid,
                   ncols : 1..MaxGrid, ntables : 1..MaxTab]
    /\ p_pass = 0 /\ p_axes = <<>> /\ p_pc = "configure_axes"
    /\ NoBuilder /\ NoTable /\ NoStore

PlotNext ==
    \/ ConfigureAxes
    \/ OuterPass
    \/ PlotEnd

PlotSpec == PlotInit /\ [][PlotNext]_vars


\* ------------------------------------------------------------------------
\* licadb/slurp.py, licatools/dbase/cli/main.py: ingestion of files into
\* lica_file_t.  A file is a path and its contents; a row of the table is
\* the record made of a file.
\* ------------------------------------------------------------------------
\* digest: Mapped[str] = mapped_column(String(128), unique=True) without the
\* unique
UniqueDigestOff == FALSE
\* digest: Mapped[str] = mapped_column(String(128), unique=True)
UniqueDigest == TRUE

\* the paths get_file_paths can find, in sorted order
Paths == <<[dir |-> "d1", name |-> "a.txt"], [dir |-> "d1", name |-> "b.txt"],
           [dir |-> "d2", name |-> "a.txt"]>>
\* os.path.basename, os.path.dirname
basename(path) == Paths[path].name
dirname(path) == Paths[path].dir
\* get_timestamp: the modification time, one per file
get_timestamp(f) == MaxContents * f.path + f.contents
\* hashlib.md5(contents).hexdigest(): a digest is shared by several
\* contents, as the hash of arbitrary bytes is
md5(contents) == "md5-" \o ToString((contents + 1) \div 2)

\* LicaFile(original_name=..., ..., contents=contents)
LicaFile(f) ==
    [original_name |-> basename(f.path), original_dir |-> dirname(f.path),
     creation_tstamp |-> get_timestamp(f), digest |-> md5(f.contents),
     contents |-> f.contents]

\* a lookup that finds nothing
one_or_noneNothing(rows, digest) == Absent
\* session.scalars(select(LicaFile).where(LicaFile.digest == digest))
\* .one_or_none() on the rows the query sees
one_or_none(rows, digest) ==
    LET found == {i \in 1..Len(rows) : rows[i].digest = digest}
    IN IF found = {} THEN Absent ELSE Given(rows[CHOOSE i \in found : TRUE])

\* the branch on existing in process_file and create_lica_file: what is
\* logged, and the object to add, if any
Ingest(f, rows) ==
    LET existing == one_or_none(rows, md5(f.contents))
    IN IF ~IsNone(existing)
       THEN [outcome |-> IF basename(f.path) # Val(existing).original_name
                         THEN "warn: exists with another name"
                         ELSE IF dirname(f.path) # Val(existing).original_dir
                         THEN "warn: exists in another original directory"
                         ELSE "debug: skipping",
             add |-> <<>>]
       ELSE [outcome |-> "added", add |-> <<LicaFile(f)>>]

IntegrityError == Error("IntegrityError", "UNIQUE constraint failed: lica_file_t.digest")

\* the end of the with session.begin() block: the pending objects are
\* inserted in order; a row that breaks the unique constraint raises and
\* the transaction is rolled back
Commit(rows, pending) ==
    LET all == rows \o pending
    IN IF UniqueDigest /\ \E i, j \in 1..Len(all) : i < j /\ all[i].digest = all[j].digest
       THEN [err |-> IntegrityError, rows |-> rows]
       ELSE [err |-> NoError, rows |-> all]

\* the rows a query of the open session sees: the committed ones, and the
\* pending ones if the session flushes before a query
Visible == IF s_autoflush THEN s_store \o s_pending ELSE s_store

\* slurp / cli_slurp up to the loop: get_file_paths, the sorted paths found
\* with what the files hold now
Slurp ==
    /\ IsNone(s_paths)
    /\ \E found \in (SUBSET (1..Len(Paths))) \ {{}} :
          /\ Cardinality(found) <= MaxFiles
          /\ \E holds \in [found -> 1..MaxContents] :
                LET nth(k) == CHOOSE p \in found : Cardinality({q \in found : q < p}) = k - 1
                IN s_paths' = Given([k \in 1..Cardinality(found) |->
                                        [path |-> nth(k), contents |-> holds[nth(k)]]])
    /\ s_pending' = <<>>
    /\ s_outcome' = ""
    /\ s_err' = NoError
    /\ UNCHANGED <<s_tool, s_autoflush, s_store, builder_vars, table_vars, plot_vars>>

\* licadb.slurp.process_file(path): a session and a transaction of its own
ProcessFile ==
    /\ s_tool = "licadb.slurp"
    /\ ~IsNone(s_paths) /\ Len(Val(s_paths)) > 0 /\ s_err = NoError
    /\ LET r == Ingest(Val(s_paths)[1], s_store)
           c == Commit(s_store, r.add)
       IN /\ s_outcome' = r.outcome
          /\ s_store' = c.rows
          /\ s_err' = c.err
    /\ s_paths' = Given(Tail(Val(s_paths)))
    /\ UNCHANGED <<s_tool, s_autoflush, s_pending, builder_vars, table_vars, plot_vars>>

\* one pass of the loop of licatools cli_slurp: create_lica_file(path,
\* session) and session.add of what it returns
CreateLicaFile ==
    /\ s_tool = "licatools.dbase"
    /\ ~IsNone(s_paths) /\ Len(Val(s_paths)) > 0 /\ s_err = NoError
    /\ LET r == Ingest(Val(s_paths)[1], Visible)
       IN /\ s_outcome' = r.outcome
          /\ s_pending' = s_pending \o r.add
    /\ s_paths' = Given(Tail(Val(s_paths)))
    /\ UNCHANGED <<s_tool, s_autoflush, s_store, s_err, builder_vars, table_vars, plot_vars>>

\* the end of the run: of slurp after the last file (or after the file
\* that raised), of cli_slurp with the commit of its one transaction
EndOfRun ==
    /\ ~IsNone(s_paths)
    /\ Len(Val(s_paths)) = 0 \/ s_err # NoError
    /\ LET c == Commit(s_store, s_pending)
       IN /\ s_store' = c.rows
          /\ s_err' = IF s_err # NoError THEN s_err ELSE c.err
    /\ s_pending' = <<>>
    /\ s_paths' = Absent
    /\ UNCHANGED <<s_tool, s_autoflush, s_outcome, builder_vars, table_vars, plot_vars>>

\* an empty store, one of the two programs, a session factory with or
\* without autoflush
StoreInit ==
    /\ s_tool \in {"licadb.slurp", "licatools.dbase"}
    /\ s_autoflush \in BOOLEAN
    /\ s_store = <<>> /\ s_pending = <<>> /\ s_paths = Absent
    /\ s_outcome = "" /\ s_err = NoError
    /\ NoBuilder /\ NoTable /\ NoPlot

StoreNext ==
    \/ Slurp
    \/ ProcessFile
    \/ CreateLicaFile
    \/ EndOfRun

StoreSpec == StoreInit /\ [][StoreNext]_vars


\* ------------------------------------------------------------------------
\* Properties
\* ------------------------------------------------------------------------
HasReturned == ~IsNone(result)
Elements == Val(result)

\* the outcome of a builder step in the current state
StepOutcome(step) ==
    CASE step = "build_tables" -> [err |-> build_tables.err, part |-> build_tables.part]
      [] step = "build_titles" -> build_titles
      [] step = "build_legends_grp" -> build_legends_grp
      [] step = "build_markers_grp" -> build_markers_grp
      [] step = "build_linestyles_grp" -> build_linestyles_grp

\* one-based column number i is no column of a table of n columns
OutOfRange(i, n) == ~(1 <= i /\ i <= n)
XOutOfRange(t) == OutOfRange(xcol, files[t].ncols)
YOutOfRange(t, j) == OutOfRange(ycol.v[j], files[t].ncols)
SomeOutOfRange ==
    \E t \in 1..Len(files) : XOutOfRange(t) \/ \E j \in 1..Len(ycol.v) : YOutOfRange(t, j)
IsColumnRangeError(err) ==
    /\ err.kind = "ValueError"
    /\ \E tag \in {"X", "Y"}, i \in ColDomain, n \in 1..MaxCols :
          err.msg = tag \o " column number (" \o ToString(i) \o ") should be 1 <= Y <= ("
                        \o ToString(n) \o ")"

\* C1: build_elements invokes build_tables, build_titles, build_legends_grp,
\* build_markers_grp, build_linestyles_grp once each, in this order, and
\* returns only after the last; the tables exist before any later step starts.
C1_FixedOrder ==
    LET order == <<"build_tables", "build_titles", "build_legends_grp",
                   "build_markers_grp", "build_linestyles_grp">>
    IN /\ Len(calls) <= Len(order)
       /\ calls = SubSeq(order, 1, Len(calls))
       /\ (HasReturned => calls = order)
       /\ (Len(calls) >= 2 => ~IsNone(tables))
C1_Witness ==
    /\ HasReturned
    /\ Len(calls) = 5
    /\ IsNone(title) /\ IsNone(titles) /\ IsNone(legends) /\ legend = None
    /\ Elements[4].v[1] = MetaTitle(Val(tables)[1])

\* C4: when a build step raises, build_elements raises that same error, no
\* further step is invoked and nothing is returned.
C4_ErrorPropagates ==
    /\ [][\A step \in {"build_tables", "build_titles", "build_legends_grp",
                        "build_markers_grp", "build_linestyles_grp"} :
            (Stmt = step /\ StepOutcome(step).err # NoError)
                => /\ error' = StepOutcome(step).err
                   /\ calls' = Append(calls, step)
                   /\ result' = Absent
                   /\ Stmt' = "exit"]_vars
    /\ [][error # NoError => (calls' = calls /\ result' = Absent /\ error' = error)]_vars
C4_Witness ==
    /\ error.kind = "ValueError"
    /\ calls = <<"build_tables", "build_titles", "build_legends_grp", "build_markers_grp">>
    /\ Len(elements) = 5
    /\ IsNone(result)

FirstBadY(t, j) ==
    /\ YOutOfRange(t, j)
    /\ \A u \in 1..t : ~XOutOfRange(u)
    /\ \A u \in 1..(t - 1) : \A k \in 1..Len(ycol.v) : ~YOutOfRange(u, k)
    /\ \A k \in 1..(j - 1) : ~YOutOfRange(t, k)
C7_YColumnMessage ==
    /\ (calls = <<"build_tables">> /\ error.kind = "ValueError" /\ SubSeq(error.msg, 1, 1) = "Y")
          => \E t \in 1..Len(files), j \in 1..Len(ycol.v) :
                /\ FirstBadY(t, j)
                /\ error.msg = "Y column number (" \o ToString(ycol.v[j])
                                   \o ") should be 1 <= Y <= (" \o ToString(files[t].ncols) \o ")"
    /\ (/\ Len(calls) >= 1
        /\ source \in FileSources
        /\ IsNone(resol)
        /\ \E t \in 1..Len(files), j \in 1..Len(ycol.v) : FirstBadY(t, j))
          => (error.kind = "ValueError" /\ SubSeq(error.msg, 1, 1) = "Y")
C7_Witness ==
    /\ calls = <<"build_tables">>
    /\ ycol.list /\ Len(ycol.v) = 2
    /\ Len(files) = 2
    /\ FirstBadY(2, 2)
    /\ ycol.v[2] = 3 /\ files[2].ncols = 2
    /\ error.msg = "Y column number (3) should be 1 <= Y <= (2)"

\* C9: the returned x is xcol - 1 and the returned yy is the requested Y
\* column numbers, each minus one, in the requested order; one Y column
\* gives a list of one.
C9_ZeroBasedOnce ==
    HasReturned =>
        /\ Elements[1].v = xcol - 1
        /\ Elements[2].v = [j \in 1..Len(ycol.v) |-> ycol.v[j] - 1]
        /\ (~ycol.list => Len(Elements[2].v) = 1)
C9_Witness ==
    /\ HasReturned
    /\ ycol.list /\ Len(ycol.v) = 2 /\ ycol.v[1] > ycol.v[2]
    /\ xcol = 1
    /\ Elements[2].v = <<ycol.v[1] - 1, ycol.v[2] - 1>>

\* the groups of a returned Elements: legends_grp, markers_grp, linestyles_grp
GroupShape(grp) ==
    /\ Len(grp) = ntab
    /\ \A i \in 1..Len(grp) : Len(grp[i]) = ncol
AllNone(grp) == grp = [i \in 1..ntab |-> [j \in 1..ncol |-> None]]

\* C2: in every returned Elements each of legends_grp, markers_grp and
\* linestyles_grp has exactly ntab groups of exactly ncol entries.
C2_GroupShape ==
    HasReturned => \A g \in 5..7 : GroupShape(Elements[g].v)

\* C3: in every returned Elements x and every entry of yy are columns of
\* every table in tables: a column out of range is never passed through to
\* the Elements.
C3_ColumnsInRange ==
    HasReturned =>
        \A t \in 1..Len(Elements[3].v) :
            LET n == Elements[3].v[t].ncols
            IN /\ 0 <= Elements[1].v /\ Elements[1].v < n
               /\ \A j \in 1..Len(Elements[2].v) :
                     0 <= Elements[2].v[j] /\ Elements[2].v[j] < n

\* C6: on TableFromFile, TablesFromFiles and TableWrapper a column out of
\* range makes build_tables fail with the column range error and no other.
C6_OnlyColumnRangeError ==
    (/\ source \in {"TableFromFile", "TablesFromFiles", "TableWrapper"}
     /\ Len(calls) >= 1
     /\ SomeOutOfRange)
        => (calls = <<"build_tables">> /\ IsColumnRangeError(error))

\* C8: resampling together with a list of Y columns fails with the
\* unsupported-combination error before any table is produced, on
\* TableFromFile and on TablesFromFiles.
C8_ResampleNeedsOneY ==
    (/\ source \in FileSources
     /\ ~IsNone(resol)
     /\ ycol.list
     /\ Len(calls) >= 1)
        => /\ calls = <<"build_tables">>
           /\ error = Error("AssertionError", "Y Column only")
           /\ IsNone(tables)

\* C10: when no markers and no line styles are supplied, markers_grp and
\* linestyles_grp are ntab tuples of ncol None each.
C10_AbsentGroupsAreNone ==
    (/\ HasReturned
     /\ IsNone(markers) /\ marker = None
     /\ IsNone(linestyles) /\ linestyle = None)
        => (AllNone(Elements[6].v) /\ AllNone(Elements[7].v))

\* the supplied lists of the three kinds with the entry of Elements they decide
Supplied == <<[what |-> "legends", seq |-> legends, entry |-> 5, step |-> "build_legends_grp"],
              [what |-> "markers", seq |-> markers, entry |-> 6, step |-> "build_markers_grp"],
              [what |-> "linestyles", seq |-> linestyles, entry |-> 7,
               step |-> "build_linestyles_grp"]>>

\* C11: on SingleTablesColumnsBuilder a supplied legends, markers or
\* linestyles list of exactly ncol items gives ntab groups, each equal to the
\* supplied list in the supplied order.
C11_NcolListReplicated ==
    (HasReturned /\ kind = "SingleTablesColumnsBuilder") =>
        \A a \in 1..3 :
            LET S == Supplied[a].seq
            IN (~IsNone(S) /\ Len(Val(S)) = ncol)
                  => Elements[Supplied[a].entry].v = [t \in 1..ntab |-> Val(S)]
C11_Witness ==
    /\ HasReturned /\ kind = "SingleTablesColumnsBuilder"
    /\ ntab = 2 /\ ncol = 2
    /\ \A a \in 1..3 : ~IsNone(Supplied[a].seq) /\ Len(Val(Supplied[a].seq)) = 2
    /\ Elements[6].v = <<Val(markers), Val(markers)>>
    /\ Val(markers)[1] # Val(markers)[2]

\* C12: on SingleTablesColumnsBuilder a supplied legends, markers or
\* linestyles list S of exactly ntab*ncol items is assigned without
\* replication in row-major order: table t, Y column c (zero-based) gets
\* S[t*ncol + c].
C12_FullListRowMajor ==
    (HasReturned /\ kind = "SingleTablesColumnsBuilder") =>
        \A a \in 1..3 :
            LET S == Supplied[a].seq
                grp == Elements[Supplied[a].entry].v
            IN (~IsNone(S) /\ Len(Val(S)) = ntab * ncol)
                  => /\ Len(grp) = ntab
                     /\ \A t \in 0..(ntab - 1) :
                           /\ Len(grp[t + 1]) = ncol
                           /\ \A c \in 0..(ncol - 1) :
                                 grp[t + 1][c + 1] = Val(S)[t * ncol + c + 1]
C12_Witness ==
    /\ HasReturned /\ kind = "SingleTablesColumnsBuilder"
    /\ ntab = 2 /\ ncol = 2
    /\ ~IsNone(legends) /\ Len(Val(legends)) = 4
    /\ Elements[5].v = <<SubSeq(Val(legends), 1, 2), SubSeq(Val(legends), 3, 4)>>
    /\ Cardinality({Val(legends)[i] : i \in 1..4}) = 4

\* the step invoked last, "" before the first
LastCall == IF calls = <<>> THEN "" ELSE calls[Len(calls)]
\* a supplied list whose length is none of the lengths accepted
BadLength(S, accepted) == ~IsNone(S) /\ Len(Val(S)) \notin accepted

\* C13: on SingleTablesColumnsBuilder a supplied legends, markers or
\* linestyles list whose length k is neither ncol nor ntab*ncol makes
\* build_elements raise "number of <kind> (k) should match number of tables
\* x Y-columns (ntab*ncol) or the number of Y-columns (ncol)".
C13_TwoAlternativeMessage ==
    kind = "SingleTablesColumnsBuilder" =>
        LET bad(a) == BadLength(Supplied[a].seq, {ncol, ntab * ncol})
            text(a) == "number of " \o Supplied[a].what \o " ("
                        \o ToString(Len(Val(Supplied[a].seq)))
                        \o ") should match number of tables x Y-columns ("
                        \o ToString(ntab * ncol) \o ") or the number of Y-columns ("
                        \o ToString(ncol) \o ")"
        IN /\ ((\E a \in 1..3 : bad(a)) => ~HasReturned)
           /\ \A a \in 1..3 :
                 (LastCall = Supplied[a].step /\ bad(a))
                     => (error.kind = "ValueError" /\ error.msg = text(a))
           /\ (pc = 0 /\ ~IsNone(tables) /\ bad(1))
                 => (LastCall = "build_legends_grp" /\ error.msg = text(1))
C13_Witness ==
    /\ kind = "SingleTablesColumnsBuilder"
    /\ ntab = 2 /\ ncol = 2
    /\ ~IsNone(markers) /\ Len(Val(markers)) = 3
    /\ LastCall = "build_markers_grp"
    /\ error.msg = "number of markers (3) should match number of tables x Y-columns (4) or the number of Y-columns (2)"

\* C14: on SingleTableColumnsBuilder, once the table is built, build_elements
\* succeeds exactly when every supplied legends, markers or linestyles list
\* has ncol items; the single group is then the supplied items in order, and
\* a list of any other length, shorter or longer, is rejected with a
\* cardinality error.
C14_ExactlyNcol ==
    kind = "SingleTableColumnsBuilder" =>
        LET bad(a) == BadLength(Supplied[a].seq, {ncol})
        IN /\ HasReturned =>
                 \A a \in 1..3 :
                     ~IsNone(Supplied[a].seq)
                        => /\ Len(Val(Supplied[a].seq)) = ncol
                           /\ Elements[Supplied[a].entry].v = <<Val(Supplied[a].seq)>>
           /\ (pc = 0 /\ ~IsNone(tables) /\ \A a \in 1..3 : ~bad(a)) => HasReturned
           /\ \A a \in 1..3 :
                 (LastCall = Supplied[a].step /\ bad(a))
                     => /\ error.kind = "ValueError"
                        /\ \E w \in {"labels", "legends", "markers", "linestyles"} :
                              error.msg = "number of " \o w \o " ("
                                  \o ToString(Len(Val(Supplied[a].seq)))
                                  \o ") should match number of y-columns ("
                                  \o ToString(ncol) \o ")"
C14_Witness ==
    /\ kind = "SingleTableColumnsBuilder"
    /\ ncol = 2
    /\ ~IsNone(legends) /\ Len(Val(legends)) = 2
    /\ ~IsNone(markers) /\ Len(Val(markers)) = 1
    /\ LastCall = "build_markers_grp"
    /\ Len(elements) = 5 /\ elements[5].v = <<Val(legends)>>
    /\ error.msg = "number of markers (1) should match number of y-columns (2)"

\* C15: on SingleTableColumnsBuilder a supplied legends list of length
\* k # ncol is rejected with "number of legends (k) should match number of
\* y-columns (ncol)".
C15_LegendsMessage ==
    (/\ kind = "SingleTableColumnsBuilder"
     /\ LastCall = "build_legends_grp"
     /\ BadLength(legends, {ncol}))
        => error.msg = "number of legends (" \o ToString(Len(Val(legends)))
                           \o ") should match number of y-columns (" \o ToString(ncol) \o ")"

\* C16: on SingleTablesColumnBuilder a supplied legends, markers or
\* linestyles list of ntab items gives ntab one-element groups, group i
\* holding item i; a list of one item gives ntab one-element groups all
\* holding that item.
C16_PerTableOrOne ==
    (HasReturned /\ kind = "SingleTablesColumnBuilder") =>
        \A a \in 1..3 :
            LET S == Supplied[a].seq
                grp == Elements[Supplied[a].entry].v
            IN ~IsNone(S) =>
                  /\ Len(Val(S)) = ntab => grp = [i \in 1..ntab |-> <<Val(S)[i]>>]
                  /\ Len(Val(S)) = 1 => grp = [i \in 1..ntab |-> <<Val(S)[1]>>]
C16_Witness ==
    /\ HasReturned /\ kind = "SingleTablesColumnBuilder"
    /\ ntab = 2
    /\ ~IsNone(legends) /\ Len(Val(legends)) = 2
    /\ ~IsNone(markers) /\ Len(Val(markers)) = 1
    /\ Elements[5].v = << <<Val(legends)[1]>>, <<Val(legends)[2]>> >>
    /\ Elements[6].v = << <<Val(markers)[1]>>, <<Val(markers)[1]>> >>

\* C17: on SingleTablesColumnBuilder a supplied legends, markers or
\* linestyles list whose length k is neither 1 nor ntab makes build_elements
\* raise "number of <legends|markers|linestyles> (k) should either match
\* number of tables (ntab) or be 1".
C17_EitherMessage ==
    kind = "SingleTablesColumnBuilder" =>
        \A a \in 1..3 :
            (LastCall = Supplied[a].step /\ BadLength(Supplied[a].seq, {1, ntab}))
                => error.msg = "number of " \o Supplied[a].what \o " ("
                                   \o ToString(Len(Val(Supplied[a].seq)))
                                   \o ") should either match number of tables ("
                                   \o ToString(ntab) \o ") or be 1"

\* C18: on the multi-axes builders the titles of a returned Elements have
\* exactly ntab entries; supplied titles of length ntab are returned
\* unchanged, and supplied titles of any other length k are rejected with
\* "number of titles (k) should match number of tables (ntab)".
C18_TitlesPerTable ==
    kind \in MultiAxesKinds =>
        LET text == "number of titles (" \o ToString(Len(Val(titles)))
                        \o ") should match number of tables (" \o ToString(ntab) \o ")"
        IN /\ HasReturned =>
                 /\ Len(Elements[4].v) = ntab
                 /\ ~IsNone(titles) => Elements[4].v = Val(titles)
           /\ (LastCall = "build_titles" /\ BadLength(titles, {ntab}))
                 => (error.kind = "ValueError" /\ error.msg = text)
           /\ (pc = 0 /\ ~IsNone(tables) /\ BadLength(titles, {ntab}))
                 => (LastCall = "build_titles" /\ error.msg = text)
C18_Witness ==
    /\ kind = "MultiTablesColumnBuilder"
    /\ ntab = 2
    /\ ~IsNone(titles) /\ Len(Val(titles)) = 1
    /\ LastCall = "build_titles"
    /\ error.msg = "number of titles (1) should match number of tables (2)"

C20_OneTitle ==
    (HasReturned /\ kind \notin MultiAxesKinds) =>
        /\ Len(Elements[4].v) = 1
        /\ (~IsNone(title) /\ Val(title).str) => Elements[4].v[1] = Val(title).v[1]
        /\ (~IsNone(title) /\ ~Val(title).str /\ Len(Val(title).v) = 3)
              => Elements[4].v[1]
                    = Val(title).v[1] \o " " \o Val(title).v[2] \o " " \o Val(title).v[3]
        /\ IsNone(title) => Elements[4].v[1] = MetaTitle(Elements[3].v[1])
C20_Witness ==
    /\ HasReturned /\ kind = "SingleTablesColumnsBuilder"
    /\ ntab = 2
    /\ IsNone(title)
    /\ Elements[4].v = <<MetaTitle(files[1])>>
    /\ MetaTitle(files[1]) # MetaTitle(files[2])

\* C21: on SingleTablesColumnsBuilder with no legends supplied the legend of
\* table t and Y column y is t's label, a hyphen, the first L characters of
\* y's column name (L the label length, 6 by default) and a period; group i
\* holds the ncol legends of table i in Y-column order.
C21_DefaultLegends ==
    (/\ HasReturned /\ kind = "SingleTablesColumnsBuilder" /\ IsNone(legends)
     /\ \A t \in 1..Len(files), j \in 1..Len(ycol.v) : ~YOutOfRange(t, j))
        => Elements[5].v =
              [t \in 1..ntab |->
                 [j \in 1..ncol |->
                    LET name == ColumnName(ycol.v[j])
                        L == IF trim < Len(name) THEN trim ELSE Len(name)
                    IN MetaLabel(Elements[3].v[t]) \o "-" \o SubSeq(name, 1, L) \o "."]]
C21_Witness ==
    /\ HasReturned /\ kind = "SingleTablesColumnsBuilder" /\ IsNone(legends)
    /\ ntab = 2 /\ ycol.v = <<2, 3>>
    /\ trim = 3
    /\ Elements[5].v = << <<"label1-Ele.", "label1-Pho.">>, <<"label2-Ele.", "label2-Pho.">> >>

\* C29: when resampling is requested of a file source for one Y column, on
\* tables of at least two columns with X and Y column numbers in range, the
\* tables are built, and each keeps the number of columns of the table as
\* read, so that the zero-based X and Y indices still name its columns.
C29_ResampledBuilt ==
    (/\ Len(calls) >= 1
     /\ source \in FileSources /\ ~IsNone(resol) /\ ~ycol.list
     /\ xcol # ycol.v[1]
     /\ \A t \in 1..Len(files) :
           files[t].ncols >= 2 /\ ~XOutOfRange(t) /\ ~YOutOfRange(t, 1))
        => /\ ~IsNone(tables)
           /\ \A t \in 1..Len(files) : Val(tables)[t].ncols = files[t].ncols

\* the table function has returned a table
TableReturned == t_pc = 0 /\ t_err = NoError /\ Len(t_ops) > 0
LastOp == IF Len(t_ops) = 0 THEN "" ELSE t_ops[Len(t_ops)]

\* C22: whenever resampling is requested, resample_column is applied to the
\* table as read and trim_table afterwards to the table made of the
\* resampled values; no trim_table comes before a resample_column.
C22_ResampleThenTrim ==
    ~IsNone(t_args.resol) =>
       /\ \A i, j \in 1..Len(t_ops) :
             (t_ops[i] = "trim_table" /\ t_ops[j] = "resample_column") => j < i
       /\ (LastOp = "resample_column" /\ t_err = NoError) =>
             Val(t_grid) = resample_column_rows(read_csv(t_args.x), Val(t_args.resol),
                                                t_args.lica)
       /\ (LastOp = "trim_table" /\ t_err = NoError) =>
             /\ ~IsNone(t_grid)
             /\ \A r \in 1..Len(t_table) :
                   \E g \in 1..Len(Val(t_grid).wavelength) :
                       /\ t_table[r].x = Halves(Val(t_grid).wavelength[g])
                       /\ t_table[r].y = Val(t_grid).resampled_col[g]
       /\ TableReturned => t_ops = <<"read_csv", "resample_column", "Table", "trim_table",
                                     "return">>
C22_Witness ==
    /\ TableReturned /\ t_args.fn = "TableBase" /\ t_args.resol = Given(1)
    /\ t_args.x = <<1, 4, 6>> /\ t_args.xl = Given(2) /\ t_args.xh = Absent /\ ~t_args.lica
    /\ t_table = <<[x |-> 4, y |-> "interpolated"], [x |-> 6, y |-> "interpolated"]>>

\* C23: a resampled and then trimmed table whose two bounds lie strictly
\* inside the X range of the data has every row inside that range and no NaN
\* among its Y values.
StrictlyInside ==
    /\ ~IsNone(t_args.xl) /\ ~IsNone(t_args.xh)
    /\ np_min(t_args.x) < Halves(Val(t_args.xl))
    /\ Halves(Val(t_args.xh)) < np_max(t_args.x)
C23_NoNaN ==
    (TableReturned /\ ~IsNone(t_args.resol) /\ StrictlyInside) =>
        \A r \in 1..Len(t_table) :
            /\ np_min(t_args.x) <= t_table[r].x /\ t_table[r].x <= np_max(t_args.x)
            /\ t_table[r].y # "nan"
C23_Witness ==
    /\ TableReturned /\ ~IsNone(t_args.resol) /\ StrictlyInside
    /\ \E g \in 1..Len(Val(t_grid).resampled_col) : Val(t_grid).resampled_col[g] = "nan"
    /\ Len(t_table) > 0

\* C24: trim_table returns the rows of its input whose X value lies in
\* [xLow, xHigh], both ends included, in their order in the input; an unset
\* bound is the least or greatest X value of the input, and with the bench
\* option the interval is narrowed to the bench interval.  The rows of the
\* file are what they were.
KeptRows(rows, xlow, xhigh, lica) ==
    LET x == XColumn(rows)
        lo0 == IF IsNone(xlow) THEN np_min(x) ELSE Halves(Val(xlow))
        hi0 == IF IsNone(xhigh) THEN np_max(x) ELSE Halves(Val(xhigh))
        lo == IF lica /\ lo0 < Halves(BenchStart) THEN Halves(BenchStart) ELSE lo0
        hi == IF lica /\ hi0 > Halves(BenchEnd) THEN Halves(BenchEnd) ELSE hi0
    IN {i \in 1..Len(rows) : lo <= x[i] /\ x[i] <= hi}
C24_TrimExact ==
    [][(TableStmt = "trim_table" /\ t_err' = NoError) =>
          LET kept == KeptRows(t_table, t_args.xl, t_args.xh, t_args.lica)
              nth(k) == CHOOSE i \in kept : Cardinality({j \in kept : j < i}) = k - 1
          IN /\ Len(t_table') = Cardinality(kept)
             /\ \A k \in 1..Len(t_table') : t_table'[k] = t_table[nth(k)]
             /\ t_args' = t_args]_vars
C24_Witness ==
    /\ t_ops = <<"read_csv", "trim_table">> /\ t_err = NoError
    /\ t_args.x = <<4, 2, 6>> /\ t_args.xl = Given(1) /\ t_args.xh = Given(2) /\ ~t_args.lica
    /\ t_table = <<[x |-> 4, y |-> "y1"], [x |-> 2, y |-> "y2"]>>

\* C25: without the bench option the grid of resample_column starts at
\* ceil(min X), advances by the step, and has every point within
\* [ceil(min X), floor(max X)], for every step.
C25_GridInsideData ==
    (LastOp = "resample_column" /\ t_err = NoError /\ ~t_args.lica) =>
        LET w == Val(t_grid).wavelength
            first == np_ceil(np_min(t_args.x))
            last == np_floor(np_max(t_args.x))
        IN /\ Len(w) > 0 /\ w[1] = first
           /\ \A i \in 1..(Len(w) - 1) : w[i + 1] = w[i] + Val(t_args.resol)
           /\ \A i \in 1..Len(w) : first <= w[i] /\ w[i] <= last

\* C30: with changes false no change line is drawn on any Axes in any pass,
\* in a single shared panel and in a grid alike; with changes true the two
\* lines are drawn once on the shared panel and once on each panel of a
\* grid that gets a table.
C30_ChangesOnlyIfAsked ==
    /\ ~p_args.changes => \A a \in 1..Len(p_axes) : p_axes[a].lines = <<>>
    /\ (p_args.changes /\ p_pc = "done") =>
          \A a \in 1..Len(p_axes) :
              p_axes[a].lines = IF a <= Passes THEN MONOCROMATOR_CHANGES ELSE <<>>

\* C28: every build_elements call that returns, the first or a later one on
\* the same builder, returns exactly the seven entries its own five steps
\* appended: nothing a previous call appended is in the result.
C28_FreshAccumulator ==
    HasReturned =>
        /\ Len(Elements) = 7
        /\ Elements = StepOutcome("build_tables").part \o StepOutcome("build_titles").part
                        \o StepOutcome("build_legends_grp").part
                        \o StepOutcome("build_markers_grp").part
                        \o StepOutcome("build_linestyles_grp").part

\* C26: after any sequence of ingestions, of either program, the store
\* holds at most one row per digest, also when one run finds several files
\* of identical contents.
C26_OneRowPerDigest ==
    \A i, j \in 1..Len(s_store) : s_store[i].digest = s_store[j].digest => i = j
C26_Witness ==
    /\ s_tool = "licatools.dbase" /\ s_autoflush
    /\ s_store = <<LicaFile([path |-> 3, contents |-> 3])>>
    /\ s_pending = <<LicaFile([path |-> 1, contents |-> 1])>>
    /\ s_outcome = "warn: exists with another name"
    /\ s_paths = Given(<<>>)

\* C27: ingesting a file whose digest is already stored raises nothing and
\* leaves the store as it is, adds nothing to the session, and logs a
\* warning when the name or the directory differs from the stored row; a
\* stored row is never changed or removed.
DigestStored(f) == \E i \in 1..Len(s_store) : s_store[i].digest = md5(f.contents)
====
